---- MODULE Spec2Model ----
(***************************************************************************)
(* The Room coordinator of anyone-can-draw (src/api/room.ts): one Durable  *)
(* Object per room holding the stored RoomData, the in-memory session map  *)
(* and the round's interval timer.  Every handler body runs inside         *)
(* state.blockConcurrencyWhile, so one handler is one action; inside an    *)
(* action the code's local roomData objects and the stored value are kept  *)
(* apart, because storage.get hands out a fresh copy on every call.        *)
(*                                                                         *)
(* Scores are kept in tenths (the code rounds to one decimal) as records   *)
(* that also represent the NaN and Infinity a zero gameDuration produces.  *)
(* Strings that the code normalises are records (word, upper-case flag,    *)
(* padding flag) so that trim() and toLowerCase() do real work.            *)
(* Not modelled, because the code never reads them: endTime, the           *)
(* playerName and timestamp of a guess record, the random AI display name. *)
(* Sockets are opened on initialized rooms only (the client creates or     *)
(* joins a room before it connects).                                       *)
(***************************************************************************)
EXTENDS Integers, Sequences, FiniteSets, TLC

VARIABLES
  rd,            \* the value stored under 'roomData'
  sessions,      \* this.sessions: live connections in insertion order
  timers,        \* ids of the intervals setInterval has scheduled and nobody cleared
  pendingTicks,  \* interval callbacks that fired and wait for the room
  now,           \* Date.now()
  out,           \* messages sent by the last operation, in order
  resp,          \* HTTP response of the last operation
  op,            \* the last operation and what it saw
  ticks,         \* interval callbacks fired since the last round start
  rounds,        \* rounds started so far
  accepted,      \* guess calls accepted in the current round
  awarded,       \* score awards granted in the current round, per identifier
  aiGuessedAt    \* the clock at the AI's last accepted guess call, 0 before any

vars ==
  <<rd, sessions, timers, pendingTicks, now, out, resp, op, ticks, rounds, accepted,
    awarded, aiGuessedAt>>

---------------------------------------------------------------------------
(* Bounds of the explored behaviours *)
MaxConns == 2      \* live connections
MaxGuesses == 2    \* guess records of a round
MaxTicks == 2      \* interval callbacks fired within a round
MaxTime == 2       \* the clock's last value
MaxTimers == 2     \* live intervals
MaxPending == 1    \* fired callbacks that wait for the room
MaxRounds == 1     \* round starts
MaxRestarts == 2   \* round starts where restarts are explored

RoomKeys == {"r"}
Drawings == {"d1"}

---------------------------------------------------------------------------
(* Strings *)
Txt(w, up, pad) == [w |-> w, up |-> up, pad |-> pad]
EmptyText == Txt("", FALSE, FALSE)
UndefinedText == Txt("<undefined>", FALSE, FALSE)
ToLowerCase(t) == [t EXCEPT !.up = FALSE]
Trim(t) == [t EXCEPT !.pad = FALSE]

AI_PLAYER_ID == "ai"
GAME_WORDS == {Txt("cat", FALSE, FALSE), Txt("dog", FALSE, FALSE)}
GuessInputs == {Txt("cat", TRUE, TRUE)}

(* Numbers of the score arithmetic, in tenths *)
Num(v) == [k |-> "num", v |-> v]
NaN == [k |-> "nan", v |-> 0]
Infinity == [k |-> "inf", v |-> 0]
Plus(x, y) ==
  IF x.k = "nan" \/ y.k = "nan" THEN NaN
  ELSE IF x.k = "inf" \/ y.k = "inf" THEN Infinity
  ELSE Num(x.v + y.v)
\* x || 0 on a score
OrZero(x) == IF x.k = "nan" THEN Num(0) ELSE x
\* x || d on a setting
OrDefault(x, d) == IF x = 0 THEN d ELSE x
\* Math.round(num / den): floor(num / den + 1/2)
RoundDiv(num, den) ==
  LET n == IF den < 0 THEN 0 - num ELSE num
      d == IF den < 0 THEN 0 - den ELSE den
  IN (2 * n + d) \div (2 * d)
\* Math.round(score * (timeRemaining / gameDuration) / share * 10) / 10
TimeScore(score, timeRemaining, gameDuration, share) ==
  IF gameDuration = 0
  THEN IF timeRemaining = 0 \/ score = 0 THEN NaN ELSE Infinity
  ELSE Num(RoundDiv(score * timeRemaining * 10, gameDuration * share))

---------------------------------------------------------------------------
(* Sequences and maps *)
Range(s) == {s[i] : i \in 1..Len(s)}
Includes(s, x) == x \in Range(s)
Put(f, k, v) == (k :> v) @@ f
Has(f, k) == k \in DOMAIN f
\* roomData.connectedUsers[user] as a condition
IsConnected(d, u) == Has(d.connectedUsers, u) /\ d.connectedUsers[u]
\* roomData.scores[user] || 0
ScoreOf(scores, u) == IF Has(scores, u) THEN OrZero(scores[u]) ELSE Num(0)
\* {...settings, ...patch}
Merge(settings, patch) ==
  [k \in DOMAIN settings |-> IF k \in DOMAIN patch THEN patch[k] ELSE settings[k]]

---------------------------------------------------------------------------
(* RoomData *)
DefaultSettings ==
  [gameDuration |-> 60, minPlayers |-> 2, maxPlayers |-> 10, aiEnabled |-> FALSE,
   aiGuessCooldown |-> 5000, correctGuesserScore |-> 10, correctDrawerScore |-> 5]

NoStatus == [type |-> "none", kind |-> "none", user |-> "", word |-> EmptyText]

NewRoomData(key, users, moderator, connectedUsers, timeRemaining) ==
  [key |-> key, users |-> users, moderator |-> moderator,
   connectedUsers |-> connectedUsers, timerInterval |-> 0, lastAIGuessTime |-> 0,
   isActive |-> FALSE, isLobby |-> TRUE, targetWord |-> EmptyText,
   timeRemaining |-> timeRemaining, guesses |-> <<>>, hasWon |-> FALSE,
   currentDrawer |-> "", drawingData |-> "", settings |-> DefaultSettings,
   scores |-> <<>>, statusMessage |-> NoStatus]

\* the record the constructor stores when the room has none
ConstructedRoom == NewRoomData("", <<>>, "", <<>>, 0)
NoRoom == [ConstructedRoom EXCEPT !.key = "<none>"]

(* Messages and responses.  A message names the connections it is sent to and
   carries the fields its type has; the others keep the values of BaseMsg. *)
BaseMsg(type, to) ==
  [type |-> type, to |-> to, room |-> NoRoom, word |-> EmptyText, user |-> "",
   val |-> 0, flag |-> FALSE, scores |-> <<>>, status |-> NoStatus]
NoSettings == [none |-> TRUE]
NoResp == [status |-> 0, error |-> "", room |-> NoRoom, settings |-> NoSettings]
Ok == [NoResp EXCEPT !.status = 200]
OkRoom(room) == [Ok EXCEPT !.room = room]
OkSettings(settings) == [Ok EXCEPT !.settings = settings]
Err(status, error) == [NoResp EXCEPT !.status = status, !.error = error]

SessionConns(sess) == {sess[i].ws : i \in 1..Len(sess)}
SessionsOf(sess, u) == {sess[i].ws : i \in {j \in 1..Len(sess) : sess[j].userName = u}}
\* the connections a send reaches: send throws on a socket that is not open
Receivers(sess) == {sess[i].ws : i \in {j \in 1..Len(sess) : sess[j].open}}
\* a broadcast that stops at the first send that throws
BroadcastUntilFailure(sess, type) ==
  BaseMsg(type, {sess[i].ws : i \in {j \in 1..Len(sess) :
                                      \A k \in 1..j : sess[k].open}})

\* this.broadcast: one send per registered connection, a throwing send skipped;
\* to holds the connections that received the message
Broadcast(sess, type) == BaseMsg(type, Receivers(sess))

\* what one handler leaves behind: the stored value, the messages, the intervals
Result(store, msgs, tm) == [store |-> store, out |-> msgs, timers |-> tm]

---------------------------------------------------------------------------
(* Round end *)
\* a round end that leaves isLobby as it is
HandleRoundEndNoLobby(roomData, success, sess, tm) ==
  LET oldWord == roomData.targetWord
      ended == [roomData EXCEPT
                  !.isActive = FALSE,
                  !.targetWord = EmptyText,
                  !.timeRemaining = roomData.settings.gameDuration,
                  !.hasWon = success,
                  !.currentDrawer = "",
                  !.statusMessage =
                     [type |-> IF success THEN "success" ELSE "failure",
                      kind |-> IF success THEN "everyone" ELSE "timeup",
                      user |-> "", word |-> oldWord],
                  !.timerInterval = 0]
  IN Result(ended,
            <<[Broadcast(sess, "roundEnd") EXCEPT
                 !.flag = success, !.word = oldWord,
                 !.scores = ended.scores, !.status = ended.statusMessage]>>,
            IF roomData.timerInterval # 0 THEN tm \ {roomData.timerInterval} ELSE tm)

HandleRoundEnd(roomData, success, sess, tm) ==
  LET oldWord == roomData.targetWord
      ended == [roomData EXCEPT
                  !.isActive = FALSE,
                  !.isLobby = TRUE,
                  !.targetWord = EmptyText,
                  !.timeRemaining = roomData.settings.gameDuration,
                  !.hasWon = success,
                  !.currentDrawer = "",
                  !.statusMessage =
                     [type |-> IF success THEN "success" ELSE "failure",
                      kind |-> IF success THEN "everyone" ELSE "timeup",
                      user |-> "", word |-> oldWord],
                  !.timerInterval = 0]
  IN Result(ended,
            <<[Broadcast(sess, "roundEnd") EXCEPT
                 !.flag = success, !.word = oldWord,
                 !.scores = ended.scores, !.status = ended.statusMessage]>>,
            IF roomData.timerInterval # 0 THEN tm \ {roomData.timerInterval} ELSE tm)

\* every user but the drawer, the AI participant included
NonDrawerUsers(roomData) ==
  SelectSeq(roomData.users, LAMBDA user : user # roomData.currentDrawer)

(* A correct guess: scoring and the completion check *)
NonDrawerPlayers(roomData) ==
  SelectSeq(roomData.users,
            LAMBDA user : user # roomData.currentDrawer /\ user # AI_PLAYER_ID)

UniqueCorrectPlayers(roomData) ==
  {roomData.guesses[i].playerId :
     i \in {j \in 1..Len(roomData.guesses) : roomData.guesses[j].correct}}

AllNonDrawersGuessedCorrectly(roomData) ==
  \A player \in Range(NonDrawerPlayers(roomData)) :
     player \in UniqueCorrectPlayers(roomData)

GuesserGain(roomData) ==
  TimeScore(OrDefault(roomData.settings.correctGuesserScore, 10),
            roomData.timeRemaining, roomData.settings.gameDuration, 1)

DrawerGain(roomData) ==
  TimeScore(OrDefault(roomData.settings.correctDrawerScore, 5),
            roomData.timeRemaining, roomData.settings.gameDuration,
            Len(NonDrawerPlayers(roomData)))

AwardScores(roomData, userName) ==
  LET s1 == Put(roomData.scores, userName,
                Plus(ScoreOf(roomData.scores, userName), GuesserGain(roomData)))
  IN IF Len(NonDrawerPlayers(roomData)) > 0 /\ roomData.currentDrawer # ""
     THEN Put(s1, roomData.currentDrawer,
              Plus(ScoreOf(s1, roomData.currentDrawer), DrawerGain(roomData)))
     ELSE s1

HandleCorrectGuess(roomData, userName, sess, tm) ==
  LET scored == [roomData EXCEPT !.scores = AwardScores(roomData, userName)]
  IN IF AllNonDrawersGuessedCorrectly(scored)
     THEN HandleRoundEnd(scored, TRUE, sess, tm)
     ELSE LET told == [scored EXCEPT !.statusMessage =
                         [type |-> "success", kind |-> "guessed",
                          user |-> userName, word |-> EmptyText]]
          IN Result(told,
                    <<[Broadcast(sess, "correctGuess") EXCEPT
                         !.user = userName, !.scores = told.scores,
                         !.status = told.statusMessage]>>,
                    tm)

(* handleGuess, on the stored value it reads *)
IsCorrect(roomData, guess) ==
  ToLowerCase(Trim(guess)) = ToLowerCase(roomData.targetWord)

\* a guess guard that lets the drawer guess
GuessAcceptedFromAnyone(store, userName) == store.isActive

GuessAccepted(store, userName) ==
  store.isActive /\ userName # store.currentDrawer

HandleGuess(store, userName, guess, t, sess, tm) ==
  IF ~GuessAccepted(store, userName)
  THEN Result(store, <<>>, tm)
  ELSE LET correct == IsCorrect(store, guess)
           roomData == [store EXCEPT !.guesses =
                          Append(@, [playerId |-> userName, guess |-> guess,
                                     correct |-> correct])]
       IN IF correct
          THEN HandleCorrectGuess(roomData, userName, sess, tm)
          ELSE Result(roomData,
                      <<[Broadcast(sess, "newGuess") EXCEPT
                           !.user = userName, !.word = guess]>>,
                      tm)

---------------------------------------------------------------------------
(* The simulated AI guesser *)
AIAccuracy == {"correct", "wrong", "none"}

AIHasGuessedCorrectly(roomData) ==
  \E i \in 1..Len(roomData.guesses) :
     roomData.guesses[i].playerId = AI_PLAYER_ID /\ roomData.guesses[i].correct

\* the wrong words without a look at the AI's earlier guesses
WrongGuessesRepeated(roomData) ==
  {word \in GAME_WORDS : word # roomData.targetWord}

WrongGuesses(roomData) ==
  {word \in GAME_WORDS :
     /\ word # roomData.targetWord
     /\ ~\E i \in 1..Len(roomData.guesses) :
           roomData.guesses[i].playerId = AI_PLAYER_ID /\ roomData.guesses[i].guess = word}

\* the words Math.random can select for the given accuracy draw
AIPicks(roomData, accuracy) ==
  IF accuracy = "wrong" /\ WrongGuesses(roomData) # {}
  THEN WrongGuesses(roomData)
  ELSE {CHOOSE word \in GAME_WORDS : TRUE}

\* the guess the AI submits, EmptyText when it submits none
AIGuessText(roomData, accuracy, pick) ==
  IF AIHasGuessedCorrectly(roomData) THEN EmptyText
  ELSE IF accuracy = "correct" THEN roomData.targetWord
  ELSE IF accuracy = "wrong" /\ WrongGuesses(roomData) # {} THEN pick
  ELSE EmptyText

\* processAIGuess(roomData, ...): roomData is the caller's object; handleGuess
\* reads the stored value again and writes that one back.
ProcessAIGuess(roomData, store, accuracy, pick, t, sess, tm) ==
  LET text == AIGuessText(roomData, accuracy, pick)
  IN IF text = EmptyText
     THEN [roomData |-> roomData, res |-> Result(store, <<>>, tm)]
     ELSE [roomData |-> [roomData EXCEPT !.lastAIGuessTime = t],
           res |-> HandleGuess(store, AI_PLAYER_ID, text, t, sess, tm)]

\* the condition under which handleDrawingUpdate calls processAIGuess
AIShouldGuess(roomData, t) ==
  /\ roomData.settings.aiEnabled
  /\ IsConnected(roomData, AI_PLAYER_ID)
  /\ \/ roomData.lastAIGuessTime = 0
     \/ t - roomData.lastAIGuessTime >= OrDefault(roomData.settings.aiGuessCooldown, 5000)

\* a drawing guard that lets every user draw
DrawingAcceptedFromAnyone(store, userName) == store.isActive

DrawingAccepted(store, userName) ==
  store.isActive /\ userName = store.currentDrawer

\* a drawing update that stores its own roomData once more after the AI's guess
HandleDrawingUpdateStalePut(store, userName, drawingData, accuracy, pick, t, sess, tm) ==
  IF ~DrawingAccepted(store, userName)
  THEN Result(store, <<>>, tm)
  ELSE LET roomData == [store EXCEPT !.drawingData = drawingData]
           update == [Broadcast(sess, "drawingUpdate") EXCEPT !.val = 0]
       IN IF AIShouldGuess(roomData, t)
          THEN LET ai == ProcessAIGuess(roomData, roomData, accuracy, pick, t, sess, tm)
               IN Result(ai.roomData, ai.res.out \o <<update>>, ai.res.timers)
          ELSE Result(roomData, <<update>>, tm)

HandleDrawingUpdate(store, userName, drawingData, accuracy, pick, t, sess, tm) ==
  IF ~DrawingAccepted(store, userName)
  THEN Result(store, <<>>, tm)
  ELSE LET roomData == [store EXCEPT !.drawingData = drawingData]
           update == [Broadcast(sess, "drawingUpdate") EXCEPT !.val = 0]
       IN IF AIShouldGuess(roomData, t)
          THEN LET ai == ProcessAIGuess(roomData, roomData, accuracy, pick, t, sess, tm)
               IN Result(ai.res.store, ai.res.out \o <<update>>, ai.res.timers)
          ELSE Result(roomData, <<update>>, tm)

---------------------------------------------------------------------------
(* Settings *)
\* a settings update that takes the patch of any user
HandleUpdateSettingsByAnyone(store, userName, settings, sess, tm) ==
  LET roomData == [store EXCEPT !.settings = Merge(@, settings)]
  IN Result(roomData,
            <<[Broadcast(sess, "settingsUpdated") EXCEPT !.room = roomData]>>,
            tm)

HandleUpdateSettings(store, userName, settings, sess, tm) ==
  IF store.moderator # userName
  THEN Result(store, <<>>, tm)
  ELSE LET roomData == [store EXCEPT !.settings = Merge(@, settings)]
       IN Result(roomData,
                 <<[Broadcast(sess, "settingsUpdated") EXCEPT !.room = roomData]>>,
                 tm)

---------------------------------------------------------------------------
(* Round start and the round timer *)
\* the id setInterval returns: a positive number no live interval has
NewIntervalId(tm) == CHOOSE id \in 1..(Cardinality(tm) + 1) : id \notin tm

StartGameTimer(store, tm) ==
  IF store.isActive /\ store.timeRemaining > 0
  THEN LET intervalId == NewIntervalId(tm)
       IN Result([store EXCEPT !.timerInterval = intervalId], <<>>, tm \cup {intervalId})
  ELSE Result(store, <<>>, tm)

ConnectedUsers(roomData) ==
  {user \in DOMAIN roomData.connectedUsers : roomData.connectedUsers[user]}

StartAllowed(store, userName) ==
  /\ store.moderator = userName
  /\ Cardinality(ConnectedUsers(store)) >= store.settings.minPlayers

\* the first session of the drawer in the map's iteration order
FirstSessionOf(sess, u) ==
  IF SessionsOf(sess, u) = {} THEN {}
  ELSE {sess[CHOOSE i \in 1..Len(sess) :
                /\ sess[i].userName = u
                /\ \A j \in 1..(i - 1) : sess[j].userName # u].ws}

\* a round start that keeps the scores of the round before
HandleStartGameKeepScores(store, userName, randomWord, randomDrawer, sess, tm) ==
  IF ~StartAllowed(store, userName)
  THEN Result(store, <<>>, tm)
  ELSE LET addAI == store.settings.aiEnabled /\ ~Includes(store.users, AI_PLAYER_ID)
           users == IF addAI THEN Append(store.users, AI_PLAYER_ID) ELSE store.users
           roomData == [store EXCEPT
                          !.isActive = TRUE,
                          !.isLobby = FALSE,
                          !.targetWord = randomWord,
                          !.timeRemaining = store.settings.gameDuration,
                          !.guesses = <<>>,
                          !.hasWon = FALSE,
                          !.currentDrawer = randomDrawer,
                          !.drawingData = "",
                          !.scores = [user \in Range(users) |-> ScoreOf(store.scores, user)],
                          !.users = users,
                          !.connectedUsers =
                             IF addAI THEN Put(@, AI_PLAYER_ID, TRUE) ELSE @]
           timer == StartGameTimer(roomData, tm)
       IN Result(timer.store, <<Broadcast(sess, "gameStarted")>>, timer.timers)

\* a round start that keeps the guesses of the round before
HandleStartGameKeepGuesses(store, userName, randomWord, randomDrawer, sess, tm) ==
  IF ~StartAllowed(store, userName)
  THEN Result(store, <<>>, tm)
  ELSE LET roomData == [store EXCEPT
                          !.isActive = TRUE,
                          !.isLobby = FALSE,
                          !.targetWord = randomWord,
                          !.timeRemaining = store.settings.gameDuration,
                          !.hasWon = FALSE,
                          !.currentDrawer = randomDrawer,
                          !.drawingData = "",
                          !.scores = [user \in Range(store.users) |-> Num(0)]]
           timer == StartGameTimer(roomData, tm)
       IN Result(timer.store, <<Broadcast(sess, "gameStarted")>>, timer.timers)

HandleStartGame(store, userName, randomWord, randomDrawer, sess, tm) ==
  IF ~StartAllowed(store, userName)
  THEN Result(store, <<>>, tm)
  ELSE LET addAI == store.settings.aiEnabled /\ ~Includes(store.users, AI_PLAYER_ID)
           users == IF addAI THEN Append(store.users, AI_PLAYER_ID) ELSE store.users
           scoreKeys == Range(users) \cup
                          (IF store.settings.aiEnabled THEN {AI_PLAYER_ID} ELSE {})
           roomData == [store EXCEPT
                          !.isActive = TRUE,
                          !.isLobby = FALSE,
                          !.targetWord = randomWord,
                          !.timeRemaining = store.settings.gameDuration,
                          !.guesses = <<>>,
                          !.hasWon = FALSE,
                          !.currentDrawer = randomDrawer,
                          !.drawingData = "",
                          !.scores = [user \in scoreKeys |-> Num(0)],
                          !.users = users,
                          !.connectedUsers =
                             IF addAI THEN Put(@, AI_PLAYER_ID, TRUE) ELSE @]
           timer == StartGameTimer(roomData, tm)
           started == [Broadcast(sess, "gameStarted") EXCEPT
                         !.room = [roomData EXCEPT !.targetWord = UndefinedText]]
           drawing == [BaseMsg("youAreDrawing", FirstSessionOf(sess, randomDrawer))
                         EXCEPT !.word = roomData.targetWord]
       IN Result(timer.store,
                 IF drawing.to = {} THEN <<started>> ELSE <<started, drawing>>,
                 timer.timers)

\* a timer step that does not look at the phase
UpdateGameTimerAnyPhase(store, sess, tm) ==
  LET left == IF store.timeRemaining - 1 > 0 THEN store.timeRemaining - 1 ELSE 0
      roomData == [store EXCEPT !.timeRemaining = left]
  IN IF roomData.timeRemaining <= 0
     THEN HandleRoundEnd(roomData, FALSE, sess, tm)
     ELSE Result(roomData, <<[Broadcast(sess, "timeUpdate") EXCEPT !.val = left]>>, tm)

UpdateGameTimer(store, sess, tm) ==
  IF ~store.isActive
  THEN Result(store, <<>>, tm)
  ELSE LET left == IF store.timeRemaining - 1 > 0 THEN store.timeRemaining - 1 ELSE 0
           roomData == [store EXCEPT !.timeRemaining = left]
       IN IF roomData.timeRemaining <= 0
          THEN HandleRoundEnd(roomData, FALSE, sess, tm)
          ELSE Result(roomData,
                      <<[Broadcast(sess, "timeUpdate") EXCEPT !.val = left]>>,
                      tm)

---------------------------------------------------------------------------
(* The last operation: its name, the caller, and what it saw.  done says that
   the operation passed its checks; ai is what the AI did inside it; failed
   says that a storage.put of the operation threw. *)
IdleOp ==
  [name |-> "idle", user |-> "", ws |-> 0, wasActive |-> FALSE, drawer |-> "",
   done |-> FALSE, ai |-> "none", failed |-> FALSE]
Op(name, user, ws) ==
  [IdleOp EXCEPT !.name = name, !.user = user, !.ws = ws, !.wasActive = rd.isActive,
                 !.drawer = rd.currentDrawer]

\* the room takes one event at a time
Idle == op = IdleOp

\* what the AI did inside a drawing update: "none" when processAIGuess was not
\* called, "idle" when it was called and submitted nothing, "guess" otherwise
AIOutcome(store, userName, accuracy, pick, t) ==
  IF ~DrawingAccepted(store, userName) \/ ~AIShouldGuess(store, t) THEN "none"
  ELSE IF AIGuessText(store, accuracy, pick) = EmptyText THEN "idle"
  ELSE "guess"

Init ==
  /\ rd = ConstructedRoom
  /\ sessions = <<>>
  /\ timers = {}
  /\ pendingTicks = 0
  /\ now = 1
  /\ out = <<>>
  /\ resp = NoResp
  /\ op = IdleOp
  /\ ticks = 0
  /\ rounds = 0
  /\ accepted = 0
  /\ awarded = <<>>
  /\ aiGuessedAt = 0

\* the part of an action shared by every handler that returns a Result
Commit(res) ==
  /\ rd' = res.store
  /\ out' = res.out
  /\ timers' = res.timers

---------------------------------------------------------------------------
(* Control calls: fetch *)
\* a create call that initializes the room whether or not it exists
InitializeAgain(roomKey, moderator) ==
  /\ Idle
  /\ LET roomData == NewRoomData(roomKey, <<moderator>>, moderator, moderator :> TRUE, 60)
     IN /\ rd' = roomData
        /\ resp' = OkRoom(roomData)
        /\ op' = [Op("initialize", moderator, 0) EXCEPT !.done = TRUE]
        /\ accepted' = 0
        /\ awarded' = <<>>
        /\ aiGuessedAt' = 0
  /\ out' = <<>>
  /\ UNCHANGED <<sessions, timers, pendingTicks, now, ticks, rounds>>

Initialize(roomKey, moderator) ==
  /\ Idle
  /\ IF rd.key # ""
     THEN /\ resp' = Err(400, "Room already exists")
          /\ op' = Op("initialize", moderator, 0)
          /\ UNCHANGED <<rd, accepted, awarded, aiGuessedAt>>
     ELSE LET roomData == NewRoomData(roomKey, <<moderator>>, moderator,
                                      moderator :> TRUE, 60)
          IN /\ rd' = roomData
             /\ resp' = OkRoom(roomData)
             /\ op' = [Op("initialize", moderator, 0) EXCEPT !.done = TRUE]
             /\ accepted' = 0
             /\ awarded' = <<>>
             /\ aiGuessedAt' = 0
  /\ out' = <<>>
  /\ UNCHANGED <<sessions, timers, pendingTicks, now, ticks, rounds>>

\* a registration that pushes the name whether or not users has it
AddUserAgain(roomData, name) ==
  [roomData EXCEPT
     !.users = Append(@, name),
     !.connectedUsers = Put(@, name, TRUE)]

\* users.push(name) unless included; connectedUsers[name] = true
AddUser(roomData, name) ==
  [roomData EXCEPT
     !.users = IF Includes(@, name) THEN @ ELSE Append(@, name),
     !.connectedUsers = Put(@, name, TRUE)]

Join(name) ==
  /\ Idle
  /\ IF rd.key = ""
     THEN /\ resp' = Err(404, "Room not found")
          /\ op' = Op("join", name, 0)
          /\ out' = <<>>
          /\ UNCHANGED rd
     ELSE LET roomData == AddUser(rd, name)
          IN /\ rd' = roomData
             /\ out' = <<[Broadcast(sessions, "userJoined") EXCEPT
                            !.user = name, !.room = roomData]>>
             /\ resp' = OkRoom(roomData)
             /\ op' = [Op("join", name, 0) EXCEPT !.done = TRUE]
  /\ UNCHANGED <<sessions, timers, pendingTicks, now, ticks, rounds, accepted, awarded, aiGuessedAt>>

GetSettings ==
  /\ Idle
  /\ resp' = IF rd.key = "" THEN Err(404, "Room not found") ELSE OkSettings(rd.settings)
  /\ op' = [Op("getSettings", "", 0) EXCEPT !.done = rd.key # ""]
  /\ out' = <<>>
  /\ UNCHANGED <<rd, sessions, timers, pendingTicks, now, ticks, rounds, accepted, awarded, aiGuessedAt>>

PutSettings(name, settings) ==
  /\ Idle
  /\ IF rd.key = ""
     THEN /\ resp' = Err(404, "Room not found")
          /\ op' = Op("putSettings", name, 0)
          /\ out' = <<>>
          /\ UNCHANGED <<rd, timers>>
     ELSE IF rd.moderator # name
     THEN /\ resp' = Err(403, "Only the moderator can update settings")
          /\ op' = Op("putSettings", name, 0)
          /\ out' = <<>>
          /\ UNCHANGED <<rd, timers>>
     ELSE /\ Commit(HandleUpdateSettings(rd, name, settings, sessions, timers))
          /\ resp' = OkSettings(Merge(rd.settings, settings))
          /\ op' = [Op("putSettings", name, 0) EXCEPT !.done = TRUE]
  /\ UNCHANGED <<sessions, pendingTicks, now, ticks, rounds, accepted, awarded, aiGuessedAt>>

\* the bookkeeping of a round start
RoundStarts(started, store) ==
  /\ ticks' = IF started THEN 0 ELSE ticks
  /\ rounds' = IF started THEN rounds + 1 ELSE rounds
  /\ accepted' = IF started THEN 0 ELSE accepted
  /\ awarded' = IF started THEN store.scores ELSE awarded
  /\ UNCHANGED aiGuessedAt

StartGame(name, randomWord, randomDrawer) ==
  /\ Idle
  /\ IF rd.key = ""
     THEN /\ resp' = Err(404, "Room not found")
          /\ op' = Op("startGame", name, 0)
          /\ out' = <<>>
          /\ UNCHANGED <<rd, timers, ticks, rounds, accepted, awarded, aiGuessedAt>>
     ELSE IF rd.moderator # name
     THEN /\ resp' = Err(403, "Only the moderator can start the game")
          /\ op' = Op("startGame", name, 0)
          /\ out' = <<>>
          /\ UNCHANGED <<rd, timers, ticks, rounds, accepted, awarded, aiGuessedAt>>
     ELSE LET res == HandleStartGame(rd, name, randomWord, randomDrawer, sessions, timers)
          IN /\ Commit(res)
             /\ resp' = Ok
             /\ op' = [Op("startGame", name, 0) EXCEPT !.done = StartAllowed(rd, name)]
             /\ RoundStarts(StartAllowed(rd, name), res.store)
  /\ UNCHANGED <<sessions, pendingTicks, now>>

\* the bookkeeping of one accepted guess call by userName on the stored value
GuessCounts(store, userName, guess) ==
  /\ accepted' = accepted + 1
  /\ awarded' = IF IsCorrect(store, guess)
                THEN AwardScores([store EXCEPT !.scores = awarded], userName)
                ELSE awarded
  /\ aiGuessedAt' = IF userName = AI_PLAYER_ID THEN now ELSE aiGuessedAt

SubmitGuess(name, guess) ==
  /\ Idle
  /\ IF rd.key = ""
     THEN /\ resp' = Err(404, "Room not found")
          /\ op' = Op("submitGuess", name, 0)
          /\ out' = <<>>
          /\ UNCHANGED <<rd, timers, accepted, awarded, aiGuessedAt>>
     ELSE IF ~rd.isActive
     THEN /\ resp' = Err(400, "Game is not active")
          /\ op' = Op("submitGuess", name, 0)
          /\ out' = <<>>
          /\ UNCHANGED <<rd, timers, accepted, awarded, aiGuessedAt>>
     ELSE IF name = rd.currentDrawer
     THEN /\ resp' = Err(400, "The drawer cannot submit guesses")
          /\ op' = Op("submitGuess", name, 0)
          /\ out' = <<>>
          /\ UNCHANGED <<rd, timers, accepted, awarded, aiGuessedAt>>
     ELSE /\ Commit(HandleGuess(rd, name, guess, now, sessions, timers))
          /\ resp' = Ok
          /\ op' = [Op("submitGuess", name, 0) EXCEPT !.done = TRUE]
          /\ GuessCounts(rd, name, guess)
  /\ UNCHANGED <<sessions, pendingTicks, now, ticks, rounds>>

\* the bookkeeping of a drawing update: the AI's guess call, when it makes one
DrawingCounts(store, userName, accuracy, pick, t) ==
  IF /\ AIOutcome(store, userName, accuracy, pick, t) = "guess"
     /\ GuessAccepted(store, AI_PLAYER_ID)
  THEN GuessCounts(store, AI_PLAYER_ID, AIGuessText(store, accuracy, pick))
  ELSE UNCHANGED <<accepted, awarded, aiGuessedAt>>

UpdateDrawing(name, drawingData, accuracy, pick) ==
  /\ Idle
  /\ pick \in AIPicks(rd, accuracy)
  /\ IF rd.key = ""
     THEN /\ resp' = Err(404, "Room not found")
          /\ op' = Op("updateDrawing", name, 0)
          /\ out' = <<>>
          /\ UNCHANGED <<rd, timers, accepted, awarded, aiGuessedAt>>
     ELSE IF ~rd.isActive
     THEN /\ resp' = Err(400, "Game is not active")
          /\ op' = Op("updateDrawing", name, 0)
          /\ out' = <<>>
          /\ UNCHANGED <<rd, timers, accepted, awarded, aiGuessedAt>>
     ELSE IF name # rd.currentDrawer
     THEN /\ resp' = Err(403, "Only the current drawer can update the drawing")
          /\ op' = Op("updateDrawing", name, 0)
          /\ out' = <<>>
          /\ UNCHANGED <<rd, timers, accepted, awarded, aiGuessedAt>>
     ELSE /\ Commit(HandleDrawingUpdate(rd, name, drawingData, accuracy, pick, now,
                                        sessions, timers))
          /\ resp' = Ok
          /\ op' = [Op("updateDrawing", name, 0) EXCEPT
                      !.done = TRUE, !.ai = AIOutcome(rd, name, accuracy, pick, now)]
          /\ DrawingCounts(rd, name, accuracy, pick, now)
  /\ UNCHANGED <<sessions, pendingTicks, now, ticks, rounds>>

\* a snapshot that hides the word from requests without a name only
GameStateForNamed(roomData, name) ==
  LET hideTargetWord == name = ""
  IN [roomData EXCEPT !.targetWord = IF hideTargetWord THEN UndefinedText ELSE @]

\* the gameState object of the /game-state response
GameStateFor(roomData, name) ==
  LET hideTargetWord == name = "" \/ name # roomData.currentDrawer
  IN [roomData EXCEPT !.targetWord = IF hideTargetWord THEN UndefinedText ELSE @]

GameState(name) ==
  /\ Idle
  /\ resp' = IF rd.key = "" THEN Err(404, "Room not found")
             ELSE OkRoom(GameStateFor(rd, name))
  /\ op' = [Op("gameState", name, 0) EXCEPT !.done = rd.key # ""]
  /\ out' = <<>>
  /\ UNCHANGED <<rd, sessions, timers, pendingTicks, now, ticks, rounds, accepted, awarded, aiGuessedAt>>

---------------------------------------------------------------------------
(* Connections: handleSession and its listeners *)
UserOf(sess, ws) == sess[CHOOSE i \in 1..Len(sess) : sess[i].ws = ws].userName
\* a webSocket that is not registered
FreeConn(sess) ==
  CHOOSE ws \in 1..(Len(sess) + 1) :
     /\ ws \notin SessionConns(sess)
     /\ \A other \in 1..(ws - 1) : other \in SessionConns(sess)

HandleSession(userName) ==
  /\ Idle
  /\ LET webSocket == FreeConn(sessions)
         registered == Append(sessions, [ws |-> webSocket, userName |-> userName,
                                        open |-> TRUE])
         roomData == AddUser(rd, userName)
     IN /\ sessions' = registered
        /\ rd' = roomData
        /\ out' = <<[Broadcast(registered, "userConnectionStatus") EXCEPT
                       !.user = userName, !.flag = TRUE, !.room = roomData],
                    [BaseMsg("initialize", {webSocket}) EXCEPT !.room = roomData]>>
        /\ op' = [Op("handleSession", userName, webSocket) EXCEPT !.done = TRUE]
  /\ resp' = NoResp
  /\ UNCHANGED <<timers, pendingTicks, now, ticks, rounds, accepted, awarded, aiGuessedAt>>

\* a close listener that hands the room to the connected user who joined last
HandleCloseToLatest(store, userName, sess, tm) ==
  LET roomData == [store EXCEPT !.connectedUsers = Put(@, userName, FALSE)]
      status == [Broadcast(sess, "userConnectionStatus") EXCEPT
                   !.user = userName, !.flag = FALSE, !.room = roomData]
      connectedUsers == SelectSeq(roomData.users, LAMBDA user : IsConnected(roomData, user))
  IN IF userName = roomData.moderator /\ Len(connectedUsers) > 0
     THEN LET handed == [roomData EXCEPT !.moderator = connectedUsers[Len(connectedUsers)]]
          IN Result(handed,
                    <<status,
                      [Broadcast(sess, "newModerator") EXCEPT
                         !.user = handed.moderator, !.room = handed]>>,
                    tm)
     ELSE Result(roomData, <<status>>, tm)

\* the close listener's work on the stored value once no session of userName is left
HandleClose(store, userName, sess, tm) ==
  LET roomData == [store EXCEPT !.connectedUsers = Put(@, userName, FALSE)]
      status == [Broadcast(sess, "userConnectionStatus") EXCEPT
                   !.user = userName, !.flag = FALSE, !.room = roomData]
      connectedUsers == SelectSeq(roomData.users, LAMBDA user : IsConnected(roomData, user))
  IN IF userName = roomData.moderator /\ Len(connectedUsers) > 0
     THEN LET handed == [roomData EXCEPT !.moderator = connectedUsers[1]]
          IN Result(handed,
                    <<status,
                      [Broadcast(sess, "newModerator") EXCEPT
                         !.user = handed.moderator, !.room = handed]>>,
                    tm)
     ELSE Result(roomData, <<status>>, tm)

\* a close listener that does not look for other sessions of the user
CloseAnySession(webSocket) ==
  /\ Idle
  /\ webSocket \in SessionConns(sessions)
  /\ LET userName == UserOf(sessions, webSocket)
         remaining == SelectSeq(sessions, LAMBDA s : s.ws # webSocket)
     IN /\ sessions' = remaining
        /\ Commit(HandleClose(rd, userName, remaining, timers))
        /\ op' = [Op("close", userName, webSocket) EXCEPT !.done = TRUE]
  /\ resp' = NoResp
  /\ UNCHANGED <<pendingTicks, now, ticks, rounds, accepted, awarded, aiGuessedAt>>

Close(webSocket) ==
  /\ Idle
  /\ webSocket \in SessionConns(sessions)
  /\ LET userName == UserOf(sessions, webSocket)
         remaining == SelectSeq(sessions, LAMBDA s : s.ws # webSocket)
         stillConnected == SessionsOf(remaining, userName) # {}
     IN /\ sessions' = remaining
        /\ IF stillConnected
           THEN /\ out' = <<>>
                /\ UNCHANGED <<rd, timers>>
           ELSE Commit(HandleClose(rd, userName, remaining, timers))
        /\ op' = [Op("close", userName, webSocket) EXCEPT !.done = ~stillConnected]
  /\ resp' = NoResp
  /\ UNCHANGED <<pendingTicks, now, ticks, rounds, accepted, awarded, aiGuessedAt>>

(* Failures of the platform: a socket whose send throws, a storage.put that
   throws.  A put that throws ends the handler there: the puts before it are
   stored and the messages before it are sent. *)
SocketBreaks(webSocket) ==
  /\ Idle
  /\ \E i \in 1..Len(sessions) : sessions[i].ws = webSocket /\ sessions[i].open
  /\ sessions' = [i \in 1..Len(sessions) |->
                    IF sessions[i].ws = webSocket
                    THEN [sessions[i] EXCEPT !.open = FALSE] ELSE sessions[i]]
  /\ UNCHANGED <<rd, timers, pendingTicks, now, out, resp, op, ticks, rounds,
                 accepted, awarded, aiGuessedAt>>

\* the close listener's puts: the liveness flag, then the new moderator
CloseFailing(webSocket, failedPut) ==
  /\ Idle
  /\ webSocket \in SessionConns(sessions)
  /\ LET userName == UserOf(sessions, webSocket)
         remaining == SelectSeq(sessions, LAMBDA s : s.ws # webSocket)
         res == HandleClose(rd, userName, remaining, timers)
     IN /\ SessionsOf(remaining, userName) = {}
        /\ failedPut \in 1..Len(res.out)
        /\ sessions' = remaining
        /\ rd' = IF failedPut = 1 THEN rd
                 ELSE [rd EXCEPT !.connectedUsers = Put(@, userName, FALSE)]
        /\ out' = SubSeq(res.out, 1, failedPut - 1)
        /\ op' = [Op("close", userName, webSocket) EXCEPT !.failed = TRUE]
  /\ resp' = NoResp
  /\ UNCHANGED <<timers, pendingTicks, now, ticks, rounds, accepted, awarded, aiGuessedAt>>

\* the puts of /start-game: the round in handleStartGame, then the interval id
\* in startGameTimer, whose block handleStartGame does not await
StartFailing(name, randomWord, randomDrawer, failedPut) ==
  /\ Idle
  /\ rd.key # "" /\ StartAllowed(rd, name)
  /\ LET res == HandleStartGame(rd, name, randomWord, randomDrawer, sessions, timers)
         puts == IF res.timers = timers THEN 1 ELSE 2
     IN /\ failedPut \in 1..puts
        /\ IF failedPut = 1
           THEN /\ resp' = Err(500, "Internal Server Error")
                /\ out' = <<>>
                /\ UNCHANGED <<rd, timers>>
           ELSE /\ rd' = [res.store EXCEPT !.timerInterval = rd.timerInterval]
                /\ timers' = res.timers
                /\ out' = [i \in 1..Len(res.out) |->
                             [res.out[i] EXCEPT !.to = @ \cap Receivers(sessions)]]
                /\ resp' = Ok
        /\ op' = [Op("startGame", name, 0) EXCEPT
                    !.done = failedPut = 2, !.failed = TRUE]
        /\ RoundStarts(failedPut = 2, res.store)
  /\ UNCHANGED <<sessions, pendingTicks, now>>

(* Client events: the message listener *)
OnUpdateSettings(webSocket, settings) ==
  /\ Idle
  /\ webSocket \in SessionConns(sessions)
  /\ LET userName == UserOf(sessions, webSocket)
     IN /\ Commit(HandleUpdateSettings(rd, userName, settings, sessions, timers))
        /\ op' = [Op("updateSettings", userName, webSocket) EXCEPT
                    !.done = rd.moderator = userName]
  /\ resp' = NoResp
  /\ UNCHANGED <<sessions, pendingTicks, now, ticks, rounds, accepted, awarded, aiGuessedAt>>

OnStartGame(webSocket, randomWord, randomDrawer) ==
  /\ Idle
  /\ webSocket \in SessionConns(sessions)
  /\ LET userName == UserOf(sessions, webSocket)
         res == HandleStartGame(rd, userName, randomWord, randomDrawer, sessions, timers)
     IN /\ Commit(res)
        /\ op' = [Op("startGame", userName, webSocket) EXCEPT
                    !.done = StartAllowed(rd, userName)]
        /\ RoundStarts(StartAllowed(rd, userName), res.store)
  /\ resp' = NoResp
  /\ UNCHANGED <<sessions, pendingTicks, now>>

OnSubmitGuess(webSocket, guess) ==
  /\ Idle
  /\ webSocket \in SessionConns(sessions)
  /\ LET userName == UserOf(sessions, webSocket)
     IN /\ Commit(HandleGuess(rd, userName, guess, now, sessions, timers))
        /\ op' = [Op("submitGuess", userName, webSocket) EXCEPT
                    !.done = GuessAccepted(rd, userName)]
        /\ IF GuessAccepted(rd, userName)
           THEN GuessCounts(rd, userName, guess)
           ELSE UNCHANGED <<accepted, awarded, aiGuessedAt>>
  /\ resp' = NoResp
  /\ UNCHANGED <<sessions, pendingTicks, now, ticks, rounds>>

OnUpdateDrawing(webSocket, drawingData, accuracy, pick) ==
  /\ Idle
  /\ webSocket \in SessionConns(sessions)
  /\ pick \in AIPicks(rd, accuracy)
  /\ LET userName == UserOf(sessions, webSocket)
     IN /\ Commit(HandleDrawingUpdate(rd, userName, drawingData, accuracy, pick, now,
                                      sessions, timers))
        /\ op' = [Op("updateDrawing", userName, webSocket) EXCEPT
                    !.done = DrawingAccepted(rd, userName),
                    !.ai = AIOutcome(rd, userName, accuracy, pick, now)]
        /\ DrawingCounts(rd, userName, accuracy, pick, now)
  /\ resp' = NoResp
  /\ UNCHANGED <<sessions, pendingTicks, now, ticks, rounds>>

---------------------------------------------------------------------------
(* The interval and the clock *)
\* a scheduled interval elapses: its callback calls updateGameTimer, which waits
\* for the room
IntervalFires(intervalId) ==
  /\ Idle
  /\ intervalId \in timers
  /\ pendingTicks' = pendingTicks + 1
  /\ ticks' = ticks + 1
  /\ UNCHANGED <<rd, sessions, timers, now, out, resp, op, rounds, accepted, awarded, aiGuessedAt>>

Tick ==
  /\ Idle
  /\ pendingTicks > 0
  /\ pendingTicks' = pendingTicks - 1
  /\ Commit(UpdateGameTimer(rd, sessions, timers))
  /\ op' = [Op("updateGameTimer", "", 0) EXCEPT !.done = rd.isActive]
  /\ resp' = NoResp
  /\ UNCHANGED <<sessions, now, ticks, rounds, accepted, awarded, aiGuessedAt>>

ClockAdvances ==
  /\ Idle
  /\ now' = now + 1
  /\ UNCHANGED <<rd, sessions, timers, pendingTicks, out, resp, op, ticks, rounds,
                 accepted, awarded, aiGuessedAt>>

\* the messages and the response of the last operation have left the room
Deliver ==
  /\ op # IdleOp
  /\ op' = IdleOp
  /\ out' = <<>>
  /\ resp' = NoResp
  /\ UNCHANGED <<rd, sessions, timers, pendingTicks, now, ticks, rounds, accepted, awarded, aiGuessedAt>>

---------------------------------------------------------------------------
(* The events of a room, grouped; each group takes the clients and the bounds
   it is explored with *)
RegistryEvents(creators, joiners, socketNames, maxConns) ==
  \/ \E roomKey \in RoomKeys, moderator \in creators : Initialize(roomKey, moderator)
  \/ \E name \in joiners : Join(name)
  \/ \E userName \in socketNames :
        /\ rd.key # ""
        /\ Len(sessions) < maxConns
        /\ HandleSession(userName)
  \/ \E webSocket \in SessionConns(sessions) : Close(webSocket)

SettingsEvents(callers, patches) ==
  \/ GetSettings
  \/ \E name \in callers, settings \in patches : PutSettings(name, settings)
  \/ \E webSocket \in SessionConns(sessions), settings \in patches :
        OnUpdateSettings(webSocket, settings)

\* connectedUsers[Math.floor(Math.random() * connectedUsers.length)]: an
\* element of the list, undefined when the list is empty
Undefined == "<undefined>"
RandomDrawers(roomData) ==
  IF ConnectedUsers(roomData) = {} THEN {Undefined} ELSE ConnectedUsers(roomData)

\* the values Math.random can select at a round start requested by userName
StartDraws(userName) ==
  IF StartAllowed(rd, userName)
  THEN {[word |-> word, drawer |-> drawer] :
          word \in GAME_WORDS, drawer \in RandomDrawers(rd)}
  ELSE {[word |-> EmptyText, drawer |-> ""]}

StartEvents(callers, maxRounds) ==
  \/ \E name \in callers : \E draw \in StartDraws(name) :
        /\ rounds < maxRounds
        /\ Cardinality(timers) < MaxTimers
        /\ StartGame(name, draw.word, draw.drawer)
  \/ \E webSocket \in SessionConns(sessions) :
        \E draw \in StartDraws(UserOf(sessions, webSocket)) :
           /\ rounds < maxRounds
           /\ Cardinality(timers) < MaxTimers
           /\ OnStartGame(webSocket, draw.word, draw.drawer)

GuessEvents(callers, maxGuesses) ==
  \/ \E name \in callers, guess \in GuessInputs :
        /\ Len(rd.guesses) < maxGuesses
        /\ SubmitGuess(name, guess)
  \/ \E webSocket \in SessionConns(sessions), guess \in GuessInputs :
        /\ Len(rd.guesses) < maxGuesses
        /\ OnSubmitGuess(webSocket, guess)

DrawingEvents(callers, accuracies, maxGuesses) ==
  \/ \E name \in callers, drawingData \in Drawings, accuracy \in accuracies :
        \E pick \in AIPicks(rd, accuracy) :
           /\ Len(rd.guesses) < maxGuesses
           /\ UpdateDrawing(name, drawingData, accuracy, pick)
  \/ \E webSocket \in SessionConns(sessions), drawingData \in Drawings,
        accuracy \in accuracies :
        \E pick \in AIPicks(rd, accuracy) :
           /\ Len(rd.guesses) < maxGuesses
           /\ OnUpdateDrawing(webSocket, drawingData, accuracy, pick)

StateEvents(callers) == \E name \in callers : GameState(name)

TimerEvents ==
  \/ \E intervalId \in timers :
        /\ pendingTicks < MaxPending
        /\ ticks < MaxTicks
        /\ IntervalFires(intervalId)
  \/ Tick

ClockEvents == now < MaxTime /\ ClockAdvances

---------------------------------------------------------------------------
(* One round of two players without the AI: a creates the room, b joins or
   connects, c is a name that never joined *)
RoundPatches == {[gameDuration |-> 2], [gameDuration |-> 0]}

Next ==
  \/ Deliver
  \/ RegistryEvents({"a"}, {"b"}, {"b"}, MaxConns)
  \/ SettingsEvents({"a", "b"}, RoundPatches)
  \/ StartEvents({"a", "b"}, MaxRounds)
  \/ GuessEvents({"a", "b", "c"}, MaxGuesses)
  \/ DrawingEvents({"a", "b"}, {"none"}, MaxGuesses)
  \/ StateEvents({"a", "b", ""})
  \/ TimerEvents

Spec == Init /\ [][Next]_vars

(* The same room with restarts and second rounds, one connection, one guess *)
NextRestart ==
  \/ Deliver
  \/ RegistryEvents({"a"}, {"b"}, {"b"}, 1)
  \/ SettingsEvents({"a"}, {[gameDuration |-> 2]})
  \/ StartEvents({"a"}, MaxRestarts)
  \/ GuessEvents({"b", "c"}, 1)
  \/ TimerEvents

SpecRestart == Init /\ [][NextRestart]_vars

(* One round with the simulated AI guesser and the clock *)
AIPatches == {[aiEnabled |-> TRUE, aiGuessCooldown |-> 1]}

NextAI ==
  \/ Deliver
  \/ RegistryEvents({"a"}, {"b"}, {"b"}, 1)
  \/ SettingsEvents({"a"}, AIPatches)
  \/ StartEvents({"a"}, MaxRounds)
  \/ GuessEvents({"a", "b", "c"}, MaxGuesses)
  \/ DrawingEvents({"a", "b"}, AIAccuracy, MaxGuesses)
  \/ ClockEvents

SpecAI == Init /\ [][NextAI]_vars

(* The session registry of three users, no rounds *)
NextRegistry ==
  \/ Deliver
  \/ RegistryEvents({"a"}, {"b", "c"}, {"a", "b", "c"}, MaxConns)
  \/ SettingsEvents({"a", "b"}, {[minPlayers |-> 1]})

SpecRegistry == Init /\ [][NextRegistry]_vars

(* One round of three players with the score settings changed; the values
   that reach a rounding are halves, which the code's floating point holds
   exactly *)
ScorePatches ==
  {[gameDuration |-> 2], [correctGuesserScore |-> 0], [correctDrawerScore |-> 0]}

NextScore ==
  \/ Deliver
  \/ RegistryEvents({"a"}, {"b", "c"}, {"b"}, 1)
  \/ SettingsEvents({"a"}, ScorePatches)
  \/ StartEvents({"a"}, MaxRounds)
  \/ GuessEvents({"a", "b", "c"}, MaxGuesses)
  \/ TimerEvents

SpecScore == Init /\ [][NextScore]_vars

(* The registry and round starts with failing sockets and failing puts *)
FaultEvents(callers, maxRounds) ==
  \/ \E webSocket \in SessionConns(sessions) : SocketBreaks(webSocket)
  \/ \E webSocket \in SessionConns(sessions), failedPut \in 1..2 :
        CloseFailing(webSocket, failedPut)
  \/ \E name \in callers, failedPut \in 1..2 : \E draw \in StartDraws(name) :
        /\ rounds < maxRounds
        /\ Cardinality(timers) < MaxTimers
        /\ StartFailing(name, draw.word, draw.drawer, failedPut)

NextFaults ==
  \/ Deliver
  \/ RegistryEvents({"a"}, {"b"}, {"a", "b"}, MaxConns)
  \/ SettingsEvents({"a"}, {[minPlayers |-> 1]})
  \/ FaultEvents({"a"}, MaxRounds)

SpecFaults == Init /\ [][NextFaults]_vars

(* A room whose only user has left, with minPlayers set to 0 *)
NextEmptyRoom ==
  \/ Deliver
  \/ RegistryEvents({"a"}, {"b"}, {"a"}, 1)
  \/ SettingsEvents({"a"}, {[minPlayers |-> 0]})
  \/ StartEvents({"a"}, MaxRounds)

SpecEmptyRoom == Init /\ [][NextEmptyRoom]_vars

(* Rounds with the simulated AI guesser, one after the other: a creates the
   room and connects, b joins, and minPlayers can be lowered to 1 *)
AIRoundPatches == {[aiEnabled |-> TRUE, aiGuessCooldown |-> 1], [minPlayers |-> 1]}

NextAIRounds ==
  \/ Deliver
  \/ RegistryEvents({"a"}, {"b"}, {"a"}, 1)
  \/ SettingsEvents({"a"}, AIRoundPatches)
  \/ StartEvents({"a"}, MaxRestarts)
  \/ GuessEvents({"b"}, 1)
  \/ DrawingEvents({"a", "b"}, AIAccuracy, MaxGuesses)

SpecAIRounds == Init /\ [][NextAIRounds]_vars

---------------------------------------------------------------------------
(* Properties *)
GuessBy(user, i) == rd.guesses[i].playerId = user
GuessIndices == 1..Len(rd.guesses)
Sent(type) == {i \in 1..Len(out) : out[i].type = type}

(* C1: whatever the order in which the guess calls of a round are taken (HTTP,
   socket, and the AI's calls made inside updateDrawing), the guesses log has
   exactly one record per accepted call and the scores hold the award of every
   correct one: nothing is lost. *)
C1_NoGuessLost ==
  /\ Len(rd.guesses) = accepted
  /\ rd.scores = awarded

\* an AI guess made inside a drawing update next to a player's correct guess
C1_Witness ==
  /\ op.name = "updateDrawing" /\ op.ai = "guess"
  /\ accepted = 2
  /\ \E i \in GuessIndices : ~GuessBy(AI_PLAYER_ID, i) /\ rd.guesses[i].correct
  /\ \E i \in GuessIndices : GuessBy(AI_PLAYER_ID, i)

(* C2: while a round is Active, no message sent to a connection of a user other
   than the drawer, and no response to a caller other than the drawer, carries
   the round's targetWord. *)
CarriesWord(msg) == msg.room.targetWord = rd.targetWord \/ msg.word = rd.targetWord

C2_WordOnlyToDrawer ==
  rd.isActive =>
    /\ \A i \in 1..Len(out) : \A ws \in out[i].to :
          UserOf(sessions, ws) # rd.currentDrawer => ~CarriesWord(out[i])
    /\ op.user # rd.currentDrawer => resp.room.targetWord # rd.targetWord

(* C3: the /game-state snapshot given to a requester other than the drawer (a
   missing name included) has no targetWord and is the same whatever the
   targetWord is, in Lobby and in Active. *)
C3_StateHidesWord ==
  (op.name = "gameState" /\ op.done /\ op.user # rd.currentDrawer) =>
    /\ resp.room.targetWord = UndefinedText
    /\ \A word \in GAME_WORDS \cup {EmptyText} :
          resp.room = GameStateFor([rd EXCEPT !.targetWord = word], op.user)

\* a named user who is not the drawer asks during a round
C3_Witness ==
  /\ op.name = "gameState" /\ op.done
  /\ rd.isActive
  /\ op.user \notin {"", rd.currentDrawer}
  /\ rd.targetWord \in GAME_WORDS

(* C4 as stated: a round ends with success at most once, and exactly when
   every user other than the drawer has a correct guess in the round's log. *)
CorrectGuessers == {rd.guesses[i].playerId : i \in {j \in GuessIndices : rd.guesses[j].correct}}
GuessCall == op.name \in {"submitGuess", "updateDrawing"} /\ op.done /\ op.wasActive
EndedWithSuccess == ~rd.isActive /\ rd.hasWon /\ Cardinality(Sent("roundEnd")) = 1
OneSuccessPerRound ==
  \A i \in Sent("roundEnd") :
     out[i].flag => GuessCall /\ ~rd.isActive /\ Cardinality(Sent("roundEnd")) = 1

C4_EndsWhenAllUsersCorrect ==
  /\ OneSuccessPerRound
  /\ GuessCall =>
       (EndedWithSuccess <=> (Range(rd.users) \ {op.drawer}) \subseteq CorrectGuessers)

(* C4, amended: a round ends with success at most once, and exactly when every
   user other than the drawer and other than the AI participant has a correct
   guess in the round's log, provided there is such a user; the AI's own
   guesses are neither needed nor enough. *)
HumanGuessers == Range(rd.users) \ {op.drawer, AI_PLAYER_ID}

C4_EndsWhenAllPlayersCorrect ==
  /\ OneSuccessPerRound
  /\ (GuessCall /\ HumanGuessers # {}) =>
       (EndedWithSuccess <=> HumanGuessers \subseteq CorrectGuessers)

\* the round ends on a player's correct guess while the AI has none
C4_Witness ==
  /\ GuessCall /\ EndedWithSuccess
  /\ AI_PLAYER_ID \in Range(rd.users) \ CorrectGuessers
  /\ HumanGuessers # {}

(* C5: a tick taken when the phase is already Lobby changes nothing: RoomData
   stays as it is and no timeUpdate and no roundEnd is sent. *)
C5_LateTickIsNoOp ==
  [][(op'.name = "updateGameTimer" /\ op.name = "idle" /\ rd.isLobby)
       => (rd' = rd /\ out' = <<>> /\ timers' = timers)]_vars

\* a callback that fired during the round is taken after a guess ended it
C5_Witness ==
  /\ op.name = "updateGameTimer" /\ ~op.wasActive
  /\ rounds > 0 /\ rd.isLobby /\ rd.hasWon

(* C6: leaving Active cancels the round's interval: in Lobby no interval is
   scheduled, and never more than one interval is scheduled. *)
C6_OneTimerInActiveOnly ==
  /\ rd.isLobby => timers = {}
  /\ Cardinality(timers) <= 1

(* C7: every round that becomes Active returns to Lobby by the timer within
   gameDuration ticks: an Active round has a tick source (a scheduled interval
   or a fired callback) and has taken fewer than gameDuration timer steps. *)
C7_ActiveRoundIsTimed ==
  rd.isActive =>
    /\ timers # {} \/ pendingTicks > 0
    /\ rd.settings.gameDuration - rd.timeRemaining < rd.settings.gameDuration

(* C8: when the moderator's last connection closes while another user is
   connected, the moderator becomes the connected user with the lowest index
   in users and exactly one newModerator is sent; when the closing user is not
   the moderator, or has another live connection, the moderator stays and no
   newModerator is sent. *)
IndexIn(users, user) == CHOOSE i \in 1..Len(users) : users[i] = user

C8_ModeratorHandoff ==
  [][(op'.name = "close" /\ op.name = "idle") =>
       LET userName == op'.user
           others == ConnectedUsers(rd) \ {userName}
           last == SessionsOf(sessions', userName) = {}
       IN IF last /\ userName = rd.moderator /\ others # {}
          THEN /\ rd'.moderator \in others
               /\ \A user \in others :
                     IndexIn(rd.users, rd'.moderator) <= IndexIn(rd.users, user)
               /\ \E i \in 1..Len(out') :
                     /\ out'[i].type = "newModerator"
                     /\ out'[i].user = rd'.moderator
                     /\ \A j \in 1..Len(out') : out'[j].type = "newModerator" => j = i
          ELSE /\ rd'.moderator = rd.moderator
               /\ \A i \in 1..Len(out') : out'[i].type # "newModerator"]_vars

\* the moderator left two connected users behind and the earlier one took over
C8_Witness ==
  /\ op.name = "close" /\ op.done
  /\ Sent("newModerator") # {}
  /\ Cardinality(ConnectedUsers(rd)) = 2
  /\ rd.moderator # op.user

(* C9: in an initialized room with at least one connected user, the moderator
   is one of the connected users. *)
C9_ModeratorConnected ==
  (rd.key # "" /\ ConnectedUsers(rd) # {}) => rd.moderator \in ConnectedUsers(rd)

(* C10: in an Active round with the AI enabled and connected, an AI guess made
   inside an updateDrawing call comes at least aiGuessCooldown ms after the
   AI's previous guess: two calls closer than that add at most one AI guess
   record. *)
C10_AICooldown ==
  [][(op'.name = "updateDrawing" /\ op.name = "idle" /\ op'.ai = "guess"
        /\ aiGuessedAt # 0)
       => now - aiGuessedAt >= OrDefault(rd.settings.aiGuessCooldown, 5000)]_vars

(* C11: a settings update asked by a user who is not the moderator changes
   nothing in RoomData, sends no settingsUpdated, and the control call answers
   Forbidden (403); asked by the moderator it merges the patch into settings
   and broadcasts settingsUpdated. *)
SettingsCall == op'.name \in {"putSettings", "updateSettings"} /\ op.name = "idle" /\ rd.key # ""
PatchApplied(patch) ==
  /\ DOMAIN rd'.settings = DOMAIN rd.settings
  /\ \A k \in DOMAIN rd.settings :
        rd'.settings[k] = IF k \in DOMAIN patch THEN patch[k] ELSE rd.settings[k]

C11_SettingsByModeratorOnly ==
  [][SettingsCall =>
       IF op'.user # rd.moderator
       THEN /\ rd' = rd
            /\ out' = <<>>
            /\ op'.name = "putSettings" => resp'.status = 403
       ELSE /\ rd' = [rd EXCEPT !.settings = rd'.settings]
            /\ \E patch \in RoundPatches : PatchApplied(patch)
            /\ Len(out') = 1
            /\ out'[1].type = "settingsUpdated" /\ out'[1].room = rd'
            /\ out'[1].to = SessionConns(sessions)]_vars

\* a connected user who is not the moderator asks after the moderator's change
C11_Witness ==
  /\ op.name = "updateSettings" /\ ~op.done
  /\ op.user # rd.moderator
  /\ rd.settings.gameDuration # 60

(* C12: a round start asked by a user who is not the moderator answers
   Forbidden, and one asked by the moderator while fewer than minPlayers users
   are connected answers with an error instead of a success; in both cases
   RoomData is unchanged, no timer is started and nothing is sent. *)
C12_StartRefused ==
  [][(op'.name = "startGame" /\ op.name = "idle" /\ rd.key # "" /\ op'.ws = 0
        /\ (op'.user # rd.moderator
              \/ Cardinality(ConnectedUsers(rd)) < rd.settings.minPlayers))
       => /\ IF op'.user # rd.moderator THEN resp'.status = 403 ELSE resp'.status # 200
          /\ rd' = rd /\ timers' = timers /\ out' = <<>>]_vars

(* C13: a round start asked by the moderator while a round is Active leaves
   targetWord, currentDrawer, timeRemaining, guesses and scores of the running
   round unchanged and schedules no additional timer. *)
C13_StartOnlyFromLobby ==
  [][(op'.name = "startGame" /\ op.name = "idle" /\ rd.isActive
        /\ op'.user = rd.moderator)
       => /\ rd'.targetWord = rd.targetWord
          /\ rd'.currentDrawer = rd.currentDrawer
          /\ rd'.timeRemaining = rd.timeRemaining
          /\ rd'.guesses = rd.guesses
          /\ rd'.scores = rd.scores
          /\ timers' = timers]_vars

(* C14: create on a room that is already initialized answers with the error
   of a duplicate creation (400, "Room already exists") and leaves RoomData
   unchanged: moderator, users, settings and a round in progress are kept. *)
C14_CreateTwiceRefused ==
  [][(op'.name = "initialize" /\ op.name = "idle" /\ rd.key # "")
       => /\ resp' = Err(400, "Room already exists")
          /\ rd' = rd /\ out' = <<>> /\ timers' = timers]_vars

\* create is refused while a round is in progress
C14_Witness ==
  /\ op.name = "initialize" /\ ~op.done
  /\ rd.isActive /\ Len(rd.users) = 2

(* C15: join for a name already in users leaves users as it is, in length and
   in order, and a second join of the same name gives the RoomData of the
   first. *)
C15_JoinIdempotent ==
  [][(op'.name = "join" /\ op.name = "idle" /\ rd.key # "")
       => /\ op'.user \in Range(rd.users) => rd'.users = rd.users
          /\ op'.user \in Range(rd'.users)
          /\ AddUser(rd', op'.user) = rd'
          /\ resp'.room = rd']_vars

\* a user who is in users joins again
C15_Witness ==
  /\ op.name = "join" /\ op.done
  /\ Len(rd.users) = 3 /\ rd.users[2] = op.user

(* C16: submitGuess answers BadRequest (400) and leaves RoomData unchanged
   when the phase is not Active or the caller is the drawer; otherwise it is
   accepted and appends exactly one guess record. *)
C16_GuessGuards ==
  [][(op'.name = "submitGuess" /\ op.name = "idle" /\ rd.key # "")
       => IF ~rd.isActive \/ op'.user = rd.currentDrawer
          THEN /\ rd' = rd /\ out' = <<>>
               /\ op'.ws = 0 => resp'.status = 400
          ELSE /\ Len(rd'.guesses) = Len(rd.guesses) + 1
               /\ SubSeq(rd'.guesses, 1, Len(rd.guesses)) = rd.guesses
               /\ rd'.guesses[Len(rd'.guesses)].playerId = op'.user
               /\ op'.ws = 0 => resp'.status = 200]_vars

\* the drawer's guess is refused
C16_Witness ==
  /\ op.name = "submitGuess" /\ ~op.done
  /\ op.wasActive /\ op.user = op.drawer
  /\ resp.status = 400

(* C17: updateDrawing answers BadRequest (400) when the phase is not Active and
   Forbidden (403) when the caller is not the drawer of the Active round; in
   both cases the drawing, and all of RoomData, is unchanged, no drawingUpdate
   is sent and the AI makes no guess.  By the drawer in Active it stores the
   payload and broadcasts one drawingUpdate. *)
C17_DrawingGuards ==
  [][(op'.name = "updateDrawing" /\ op.name = "idle" /\ rd.key # "")
       => IF ~rd.isActive \/ op'.user # rd.currentDrawer
          THEN /\ rd' = rd /\ out' = <<>>
               /\ op'.ai = "none"
               /\ op'.ws = 0 => resp'.status = IF ~rd.isActive THEN 400 ELSE 403
          ELSE /\ rd'.drawingData \in Drawings
               /\ \E i \in 1..Len(out') :
                     /\ out'[i].type = "drawingUpdate"
                     /\ out'[i].to = SessionConns(sessions)
                     /\ \A j \in 1..Len(out') : out'[j].type = "drawingUpdate" => j = i
               /\ op'.ws = 0 => resp'.status = 200]_vars

\* a user who is not the drawer is refused during a round with the AI
C17_Witness ==
  /\ op.name = "updateDrawing" /\ ~op.done
  /\ op.wasActive /\ op.user # op.drawer
  /\ resp.status = 403
  /\ IsConnected(rd, AI_PLAYER_ID)

(* C18: on each correct guess the guesser's score grows by exactly
   round(correctGuesserScore * timeRemaining / gameDuration * 10) / 10 for the
   configured correctGuesserScore, 0 included; with gameDuration 60,
   timeRemaining 30 and correctGuesserScore 10 the gain is 5.0. *)
CorrectGuessCall ==
  /\ op'.name = "submitGuess" /\ op.name = "idle" /\ op'.done
  /\ rd'.guesses # <<>> /\ rd'.guesses[Len(rd'.guesses)].correct

C18_GuesserGain ==
  [][CorrectGuessCall =>
       /\ rd'.scores[op'.user] =
             Plus(ScoreOf(rd.scores, op'.user),
                  TimeScore(rd.settings.correctGuesserScore, rd.timeRemaining,
                            rd.settings.gameDuration, 1))
       /\ TimeScore(10, 30, 60, 1) = Num(50)]_vars

(* C19: on each correct guess the drawer's score grows exactly once by
   round(correctDrawerScore * timeRemaining / gameDuration / nonDrawerCount
   * 10) / 10, nonDrawerCount being the number of users that are neither the
   drawer nor the AI participant; with correctDrawerScore 5, nonDrawerCount 2,
   gameDuration 60 and timeRemaining 30 the gain is 1.3. *)
NonDrawerCount == Cardinality(Range(rd.users) \ {rd.currentDrawer, AI_PLAYER_ID})

C19_DrawerGain ==
  [][(CorrectGuessCall /\ NonDrawerCount > 0) =>
       /\ rd'.scores[rd.currentDrawer] =
             Plus(ScoreOf(rd.scores, rd.currentDrawer),
                  TimeScore(rd.settings.correctDrawerScore, rd.timeRemaining,
                            rd.settings.gameDuration, NonDrawerCount))
       /\ TimeScore(5, 30, 60, 2) = Num(13)]_vars

(* C20: in every reachable state exactly one phase holds: exactly one of
   isActive and isLobby is true. *)
C20_OnePhase == rd.isActive # rd.isLobby

\* a round that ran out of time is back in Lobby
C20_Witness ==
  /\ op.name = "updateGameTimer" /\ op.done
  /\ rd.isLobby /\ ~rd.isActive /\ ~rd.hasWon
  /\ rounds > 0

(* C21: users only grows, and the key sets of connectedUsers and of scores
   never lose a key: an identifier that once had an entry has one in every
   later state. *)
C21_KeysNeverShrink ==
  [][/\ Range(rd.users) \subseteq Range(rd'.users)
     /\ DOMAIN rd.connectedUsers \subseteq DOMAIN rd'.connectedUsers
     /\ DOMAIN rd.scores \subseteq DOMAIN rd'.scores]_vars

(* C22: in every reachable state settings.gameDuration > 0 and
   settings.minPlayers >= 2, whatever patches the moderator's updateSettings
   has merged. *)
C22_SettingsValid ==
  /\ rd.settings.gameDuration > 0
  /\ rd.settings.minPlayers >= 2

(* C24: a client event refused by an authority or precondition check changes
   no RoomData, causes no message to any other connection, and is reported to
   the connection that sent it. *)
RefusedClientEvent ==
  /\ op'.name \in {"updateSettings", "startGame", "submitGuess", "updateDrawing"}
  /\ op.name = "idle" /\ op'.ws # 0 /\ ~op'.done

C24_RefusalReported ==
  [][RefusedClientEvent =>
       /\ rd' = rd
       /\ \A i \in 1..Len(out') : out'[i].to = {op'.ws}
       /\ \E i \in 1..Len(out') : op'.ws \in out'[i].to]_vars

(* C26: on register the private initialize snapshot is the first message the
   new connection receives, before the userConnectionStatus broadcast of the
   registration, and it holds the room with the new user in users and flagged
   connected. *)
ReceivedBy(ws) == {i \in 1..Len(out) : ws \in out[i].to}

C26_InitializeFirst ==
  op.name = "handleSession" =>
    /\ ReceivedBy(op.ws) # {}
    /\ \A i \in ReceivedBy(op.ws) :
          (\A j \in ReceivedBy(op.ws) : i <= j) =>
             /\ out[i].type = "initialize"
             /\ op.user \in Range(out[i].room.users)
             /\ IsConnected(out[i].room, op.user)

(* C28: after a successful round start the gameStarted broadcast carries no
   targetWord, and afterwards every live connection of the drawer receives one
   youAreDrawing with the targetWord, while no connection of another user
   receives youAreDrawing. *)
C28_WordToEveryDrawerConnection ==
  (op.name = "startGame" /\ op.done) =>
    /\ \A i \in Sent("gameStarted") : out[i].room.targetWord = UndefinedText
    /\ \A ws \in SessionsOf(sessions, rd.currentDrawer) :
          /\ Cardinality({i \in Sent("youAreDrawing") : ws \in out[i].to}) = 1
          /\ \A i \in Sent("youAreDrawing") :
                /\ out[i].word = rd.targetWord
                /\ \A j \in Sent("gameStarted") : j < i
    /\ \A i \in Sent("youAreDrawing") :
          out[i].to \subseteq SessionsOf(sessions, rd.currentDrawer)

(* C29: immediately after a successful round start the drawer is a connected
   user: its connectedUsers flag is true and it has at least one live session,
   so youAreDrawing has a recipient. *)
C29_DrawerConnected ==
  (op.name = "startGame" /\ op.done) =>
    /\ IsConnected(rd, rd.currentDrawer)
    /\ SessionsOf(sessions, rd.currentDrawer) # {}
    /\ Sent("youAreDrawing") # {}

(* C30: while the phase stays Active timeRemaining never increases and never
   drops below 0; it equals settings.gameDuration right after a round start
   and right after a round end. *)
C30_TimeRemaining ==
  [][/\ (rd.isActive /\ rd'.isActive) => rd'.timeRemaining <= rd.timeRemaining
     /\ rd'.isActive => rd'.timeRemaining >= 0
     /\ (op'.name = "startGame" /\ op.name = "idle" /\ op'.done)
          => rd'.timeRemaining = rd'.settings.gameDuration
     /\ (rd.isActive /\ ~rd'.isActive)
          => rd'.timeRemaining = rd'.settings.gameDuration]_vars

(* C25: connectedUsers[u] becomes false only when no session of u remains:
   closing one of several connections of u leaves the flag true and sends
   nothing, and in whatever order the close of u's last connection and a new
   registration of u are taken, afterwards the flag is true exactly when u has
   a live session.  The close listener's test and its blockConcurrencyWhile
   run without another event in between, so the orders are those of the
   Close and HandleSession actions. *)
C25_FlagFollowsSessions ==
  [][/\ (op'.name = "close" /\ op.name = "idle") =>
          /\ IsConnected(rd', op'.user) <=> SessionsOf(sessions', op'.user) # {}
          /\ SessionsOf(sessions', op'.user) # {} => (rd' = rd /\ out' = <<>>)
     /\ (op'.name = "handleSession" /\ op.name = "idle") =>
          /\ IsConnected(rd', op'.user)
          /\ SessionsOf(sessions', op'.user) # {}
     /\ \A user \in DOMAIN rd'.connectedUsers :
          (IsConnected(rd, user) /\ ~IsConnected(rd', user)) =>
             (op'.name = "close" /\ op'.user = user)]_vars

\* one of two connections of a user closes
C25_Witness ==
  /\ op.name = "close" /\ ~op.done
  /\ SessionsOf(sessions, op.user) # {}
  /\ IsConnected(rd, op.user)

(* C23: when a storage.put throws during an operation, the stored RoomData is
   the value from before the operation: no partly applied update is stored,
   neither by a moderator's disconnect (two puts) nor by a round start (the
   round, then the timer handle). *)
C23_NoPartialWrite ==
  [][(op'.failed /\ op.name = "idle") => rd' = rd]_vars

\* the registry's entries: the connection and its user, in insertion order
Registry(sess) == [i \in 1..Len(sess) |-> <<sess[i].ws, sess[i].userName>>]
\* the messages sent with webSocket.send to one connection, not with broadcast
DirectTypes == {"initialize", "youAreDrawing", "error"}
BrokenBeforeOpen(sess) ==
  \E i, j \in 1..Len(sess) : i < j /\ ~sess[i].open /\ sess[j].open

(* C27: when a send to one connection throws during a broadcast, every other
   registered connection still receives the message, the operation that
   broadcast completes with its state change stored, and the failure leaves
   the session registry alone: entries leave it only on the close path. *)
C27_BroadcastSurvivesFailedSend ==
  [][/\ \A i \in 1..Len(out') :
          out'[i].type \notin DirectTypes => out'[i].to = Receivers(sessions')
     /\ (op.name = "idle" /\ op'.name = "join" /\ op'.done)
          => rd' = AddUser(rd, op'.user) /\ resp'.status = 200
     /\ (op.name = "idle" /\ op'.name = "putSettings" /\ op'.done)
          => rd'.settings = resp'.settings /\ resp'.status = 200
     /\ op'.name \notin {"close", "handleSession"}
          => Registry(sessions') = Registry(sessions)]_vars

C27_Witness ==
  /\ op.name = "join" /\ op.done
  /\ BrokenBeforeOpen(sessions)
  /\ op.user \in Range(rd.users)
  /\ \E i \in Sent("userJoined") :
        out[i].to = Receivers(sessions) /\ out[i].to # {}

\* the last operation is a round start that passed its checks
StartStep == op.name = "idle" /\ op'.name = "startGame" /\ op'.done
IsPrefix(s, t) == Len(s) <= Len(t) /\ SubSeq(t, 1, Len(s)) = s

(* C31: within a round the guesses log is append-only (no record is changed or
   removed, an accepted guess is added at the end), it is empty right after a
   round start, and it never holds a record of the round's currentDrawer. *)
C31_GuessLog ==
  [][/\ StartStep => rd'.guesses = <<>>
     /\ ~StartStep => IsPrefix(rd.guesses, rd'.guesses)
     /\ accepted' = accepted + 1 => Len(rd'.guesses) = Len(rd.guesses) + 1
     /\ \A i \in 1..Len(rd'.guesses) :
          rd'.guesses[i].playerId # rd'.currentDrawer]_vars

\* a second round starts after a round in which a guess was recorded
C31_Witness ==
  /\ op.name = "startGame" /\ op.done
  /\ rounds = 2
  /\ rd.statusMessage.kind \in {"guessed", "everyone"}
  /\ rd.guesses = <<>>

(* C32: in every reachable state targetWord is non-empty exactly when the
   phase is Active, currentDrawer names a user exactly when the phase is
   Active, and both are empty in every Lobby state. *)
C32_WordAndDrawerIffActive ==
  /\ (rd.targetWord # EmptyText) <=> rd.isActive
  /\ (rd.currentDrawer \in Range(rd.users)) <=> rd.isActive
  /\ rd.isLobby => rd.targetWord = EmptyText /\ rd.currentDrawer = ""

(* C33: a round start that passes its checks sets scores to exactly 0 for
   every user in users, the AI participant included when it is injected,
   whatever was scored in earlier rounds, and sets guesses to empty and hasWon
   to false. *)
C33_StartResets ==
  [][StartStep =>
       /\ rd'.scores = [user \in Range(rd'.users) |-> Num(0)]
       /\ rd.settings.aiEnabled => AI_PLAYER_ID \in Range(rd'.users)
       /\ rd'.guesses = <<>>
       /\ rd'.hasWon = FALSE]_vars

\* a second round with the AI starts after a round that everyone won
C33_Witness ==
  /\ op.name = "startGame" /\ op.done
  /\ rounds = 2
  /\ AI_PLAYER_ID \in Range(rd.users)
  /\ rd.statusMessage.kind = "everyone"
  /\ ~rd.hasWon
  /\ \A user \in Range(rd.users) : rd.scores[user] = Num(0)

\* the roundEnd messages of the step's operation
RoundEndsSent == {i \in 1..Len(out') : out'[i].type = "roundEnd"}
\* the roundEnd message says how the round that rd holds has ended in rd'
ReportsRoundEnd(msg) ==
  /\ msg.word = rd.targetWord
  /\ msg.scores = rd'.scores
  /\ rd'.isLobby /\ ~rd'.isActive
  /\ rd'.hasWon = msg.flag
  /\ rd'.statusMessage = msg.status
  /\ msg.status.type = (IF msg.flag THEN "success" ELSE "failure")
  /\ msg.status.word = rd.targetWord

(* C34: every round ends with exactly one roundEnd broadcast, which carries
   the round's targetWord and the final scores; after it the phase is Lobby,
   hasWon is the success flag and statusMessage records the outcome.  A round
   is over when the room leaves Active or the next round starts. *)
C34_RoundEndsOnce ==
  [][/\ (rd.isActive /\ ~rd'.isActive) =>
          /\ Cardinality(RoundEndsSent) = 1
          /\ \A i \in RoundEndsSent : ReportsRoundEnd(out'[i])
     /\ RoundEndsSent # {} => rd.isActive /\ ~rd'.isActive
     /\ StartStep => ~rd.isActive]_vars

\* the broadcasts that belong to a round in progress
RoundTypes == {"drawingUpdate", "newGuess", "correctGuess", "timeUpdate"}

(* C35: a client sees the broadcasts in the order of the state changes: the
   timeUpdate values of a round are strictly decreasing, and no drawingUpdate,
   newGuess, correctGuess or timeUpdate of a round is sent after the round's
   roundEnd, also when an AI guess made inside updateDrawing ends the round. *)
C35_BroadcastOrder ==
  [][/\ \A i \in 1..Len(out') :
          out'[i].type = "timeUpdate" =>
             out'[i].val = rd'.timeRemaining /\ out'[i].val < rd.timeRemaining
     /\ (rd.isActive /\ rd'.isActive /\ ~StartStep) =>
          rd'.timeRemaining <= rd.timeRemaining
     /\ \A i \in 1..Len(out') : out'[i].type \in RoundTypes => rd.isActive
     /\ \A i, j \in 1..Len(out') :
          (i < j /\ out'[i].type = "roundEnd") => out'[j].type \notin RoundTypes]_vars

\* the step is an updateDrawing call in which the AI's guess was recorded
AIGuessRecorded ==
  /\ op.name = "idle" /\ op'.name = "updateDrawing"
  /\ Len(rd'.guesses) = Len(rd.guesses) + 1
  /\ rd'.guesses[Len(rd'.guesses)].playerId = AI_PLAYER_ID
AIRecords(roomData) ==
  {i \in 1..Len(roomData.guesses) : roomData.guesses[i].playerId = AI_PLAYER_ID}

(* C36: the simulated AI participant submits a guess only in an Active round
   with aiEnabled set and the AI flagged connected; a wrong word it submits is
   neither the target nor one of its earlier guesses of the round, and it
   submits nothing once it has a correct guess recorded in the round. *)
C36_AIGuessGuards ==
  [][/\ AIGuessRecorded =>
          LET guess == rd'.guesses[Len(rd'.guesses)]
          IN /\ rd.isActive
             /\ rd.settings.aiEnabled
             /\ IsConnected(rd, AI_PLAYER_ID)
             /\ ~AIHasGuessedCorrectly(rd)
             /\ guess.correct <=> guess.guess = rd.targetWord
             /\ \A i \in AIRecords(rd) : rd.guesses[i].guess # guess.guess
     /\ (op.name = "idle" /\ op'.name = "updateDrawing") =>
          \/ AIGuessRecorded /\ op'.ai = "guess"
          \/ rd'.guesses = rd.guesses]_vars

\* the AI guesses the word after a wrong guess of its own
C36_Witness ==
  /\ op.name = "updateDrawing" /\ op.ai = "guess"
  /\ Len(rd.guesses) = 2
  /\ AIRecords(rd) = {1, 2}
  /\ ~rd.guesses[1].correct /\ rd.guesses[2].correct
  /\ rd.isActive

(* C37: the simulated AI participant is never selected as currentDrawer by a
   round start and never becomes moderator through the moderator handoff, in
   the round it was injected in and in every later one, whether aiEnabled is
   still set or not. *)
C37_AINeitherDrawsNorModerates ==
  /\ rd.currentDrawer # AI_PLAYER_ID
  /\ rd.moderator # AI_PLAYER_ID

(* C38: within one round a user is awarded guesser points at most once: a
   further correct guess by a user who already has a correct guess recorded
   in the round raises neither that user's score nor the drawer's. *)
C38_AwardedOncePerRound ==
  [][(CorrectGuessCall /\ op'.user \in UniqueCorrectPlayers(rd)) =>
       /\ rd'.scores[op'.user] = rd.scores[op'.user]
       /\ rd'.scores[rd.currentDrawer] = rd.scores[rd.currentDrawer]]_vars

(* C39: the playerId of every guess record and every key of scores is a
   member of users: a guess submitted under a name that never joined the room
   is not recorded and earns no score. *)
C39_OnlyUsersGuessAndScore ==
  /\ \A i \in GuessIndices : rd.guesses[i].playerId \in Range(rd.users)
  /\ DOMAIN rd.scores \subseteq Range(rd.users)

====
